---- MODULE Spec2Model ----
(***************************************************************************)
(* A model of the WebGPU particle workshop (particles, particles_custom).  *)
(*                                                                         *)
(*   Spec          the JavaScript host of the particle pages: init,        *)
(*                 restartSimulation, resizeCanvas, generateCircles,       *)
(*                 recompileComputeFromEditor and the error toast.         *)
(*   SpecStep      the movement shaders' main() applied to whole buffers,  *)
(*                 the invocations of a dispatch running one after another *)
(*                 in some order.                                          *)
(*   SpecDispatch  one dispatch at the granularity of the single buffer    *)
(*                 accesses of each invocation, freely interleaved.        *)
(*   SpecLaunch    the size of the dispatch runComputeShader issues.       *)
(*                                                                         *)
(* f32 values are fixed-point integers, each quantity with its own scale   *)
(* (PosQ, VelQ, AccQ, TermQ), rounded toward zero; the value NaN stands    *)
(* for the result of 0/0 and of every operation on it.                     *)
(***************************************************************************)
EXTENDS Integers, Sequences, FiniteSets, TLC

\* ------------------------------------------------------------ arithmetic

Abs(a) == IF a < 0 THEN -a ELSE a

Sign(a) == IF a < 0 THEN -1 ELSE IF a > 0 THEN 1 ELSE 0

Min(a, b) == IF a <= b THEN a ELSE b

Max(a, b) == IF a >= b THEN a ELSE b

MaxInt == 2 ^ 30 + (2 ^ 30 - 1)

\* The arithmetic below is written as functions: their arguments are values
\* when the body is evaluated.

\* One bit of the product: h = <<q, r>> of a * (b \div 2) over c, bit = b % 2.
MulDivBit[h \in Nat \X Nat, a \in Nat, bit \in Nat, c \in Nat] ==
    LET t == 2 * h[2] + bit * (a % c)
    IN  <<2 * h[1] + bit * (a \div c) + (t \div c), t % c>>

\* <<q, r>> with a * b = q * c + r and 0 <= r < c, for a, b >= 0 and c > 0.
\* A product above MaxInt is never formed: it is then taken bit by bit over b.
MulDivMod[a \in Nat, b \in Nat, c \in Nat] ==
    IF b = 0 THEN <<0, 0>>
    ELSE IF a <= MaxInt \div b THEN <<(a * b) \div c, (a * b) % c>>
    ELSE MulDivBit[MulDivMod[a, b \div 2, c], a, b % 2, c]

MulDivInt[a \in Int, b \in Int, c \in Nat] ==
    Sign(a) * Sign(b) * MulDivMod[Max(Abs(a), Abs(b)), Min(Abs(a), Abs(b)), c][1]

\* a * b / c rounded toward zero (c > 0).
MulDiv(a, b, c) == MulDivInt[a, b, c]

\* r * r <= m * m + n * n, for 0 <= n <= m <= r <= m + n.
SqLe[r \in Nat, m \in Nat, n \in Nat] ==
    IF n = 0 THEN r <= m
    ELSE LET d == MulDivMod[r + m, r - m, n]
         IN  d[1] < n \/ (d[1] = n /\ d[2] = 0)

\* The largest r in lo..hi with r * r <= m * m + n * n (lo is one).
SqrtSearch[lo \in Nat, hi \in Nat, m \in Nat, n \in Nat] ==
    IF lo >= hi THEN lo
    ELSE IF SqLe[(lo + hi + 1) \div 2, m, n]
         THEN SqrtSearch[(lo + hi + 1) \div 2, hi, m, n]
         ELSE SqrtSearch[lo, (lo + hi + 1) \div 2 - 1, m, n]

\* floor(sqrt(m * m + n * n)) for m >= n: it lies between m and
\* m + n * n / (2 * m).
HypotNat[m \in Nat, n \in Nat] ==
    IF n = 0 THEN m
    ELSE SqrtSearch[m, m + MulDivMod[n, n, 2 * m][1], m, n]

HypotInt[x \in Int, y \in Int] ==
    HypotNat[Max(Abs(x), Abs(y)), Min(Abs(x), Abs(y))]

\* floor(sqrt(x * x + y * y))
Hypot(x, y) == HypotInt[x, y]

\* ------------------------------------------------------------ f32 values

\* Fixed-point scales: a position x px is x * PosQ, a velocity v px/s is
\* v * VelQ (2^-15 px/s is about the f32 spacing near 100), an acceleration
\* a px/s^2 is a * AccQ, a dimensionless ratio r is r * TermQ.
PosQ == 10 * 10

VelQ == 2 ^ 15

AccQ == 10

TermQ == 10 * 1000

\* A vec2<f32>. nan marks the vector whose components are NaN (0/0).
V(x, y) == [x |-> x, y |-> y, nan |-> FALSE]

NaNVec == [x |-> 0, y |-> 0, nan |-> TRUE]

Zero == V(0, 0)

VAdd(a, b) == IF a.nan \/ b.nan THEN NaNVec ELSE V(a.x + b.x, a.y + b.y)

VSub(a, b) == IF a.nan \/ b.nan THEN NaNVec ELSE V(a.x - b.x, a.y - b.y)

\* length(v) of a vector that is not NaN
Length(v) == Hypot(v.x, v.y)

\* normalize(v) * m, in the scale of m, for a vector that is neither NaN nor zero
NormalizeTimes(v, m) ==
    LET len == Length(v)
    IN  V(MulDiv(v.x, m, len), MulDiv(v.y, m, len))

\* ------------------------------------------------------------ movement shaders

\* The three movement shaders: "particles" (boolean gravity, speed-adaptive
\* damping), "custom" (mouse, gravity direction, MAX_ACCEL), "reaction"
\* (reaction force below two radii, constant damping).
Shaders == {"particles", "custom", "reaction"}

CIRCLE_RADIUS == 5

INTER_EPISILON == 100

INTER_SIGMA == CIRCLE_RADIUS * 8

MAX_ACCEL == 10000

MAX_SPEED == 1000

DAMP_FREE_SPEED == 100

MOUSE_RADIUS == CIRCLE_RADIUS * 50

\* DAMPING in thousandths
DAMPING(sh) == IF sh = "reaction" THEN 998 ELSE 999

\* GRAVITY = (-)9.81 * 1000.0
GRAVITY(sh) == IF sh = "custom" THEN -9810 ELSE 9810

HasMouse(sh) == sh = "custom"

HasMaxAccel(sh) == sh = "custom"

\* 4 * INTER_EPISILON * (strong_force - weak_force), in AccQ, at a distance
\* above two radii (inter_term is then below 4).
InterForce(distance) ==
    LET inter_term   == MulDiv(INTER_SIGMA * PosQ, TermQ, distance)
        weak_force   == MulDiv(MulDiv(inter_term, inter_term, TermQ), inter_term, TermQ)
        strong_force == MulDiv(weak_force, weak_force, TermQ)
    IN  MulDiv(strong_force - weak_force, 4 * INTER_EPISILON * AccQ, TermQ)

\* -2 * directionSpeed * direction / deltaTime, in AccQ (0 < r).
ReactForce(offset, r, velocity, ms) ==
    LET directionSpeed == MulDiv(offset.x, velocity.x, r) + MulDiv(offset.y, velocity.y, r)
        magnitude      == MulDiv(-2 * directionSpeed, 1000 * AccQ, ms * VelQ)
    IN  V(MulDiv(magnitude, offset.x, r), MulDiv(magnitude, offset.y, r))

\* One iteration of the loop over the other particles: what it adds to
\* circle.acceleration. The shaders compute direction and inter_force before
\* they test the distance; at distance 0 both are NaN, and only the reaction
\* shader uses one of them in the branch it then takes.
PairTerm(sh, circle, other_circle, ms) ==
    LET offset == VSub(other_circle.position, circle.position)
    IN  IF offset.nan THEN NaNVec
        ELSE LET distance == Length(offset)
             IN  IF distance <= CIRCLE_RADIUS * 2 * PosQ
                 THEN IF sh # "reaction" THEN Zero
                      ELSE IF distance = 0 \/ circle.velocity.nan THEN NaNVec
                      ELSE ReactForce(offset, distance, circle.velocity, ms)
                 ELSE LET inter_force == InterForce(distance)
                      IN  V(-MulDiv(inter_force, offset.x, distance),
                            -MulDiv(inter_force, offset.y, distance))

\* term^6 of the mouse interaction, in AccQ. The model holds a term above
\* TermSat at TermSat: the force is then over 700 times MAX_ACCEL, to which
\* the shader clamps the sum right after.
TermSat == 14 * TermQ

MouseForce(mouse_distance) ==
    LET term  == Min(MulDiv(MOUSE_RADIUS * PosQ, TermQ, mouse_distance), TermSat)
        cube  == MulDiv(MulDiv(term, term, TermQ), term, TermQ)
    IN  MulDiv(cube, cube, (TermQ * TermQ) \div AccQ)

\* "Apply mouse interaction": what it adds to circle.acceleration.
MouseTerm(sh, circle, u) ==
    IF ~HasMouse(sh) \/ u.is_mouse_down = 0 THEN Zero
    ELSE LET mouse_offset == VSub(u.mouse_position, circle.position)
         IN  IF mouse_offset.nan THEN NaNVec
             ELSE LET mouse_distance == Length(mouse_offset)
                  IN  IF mouse_distance = 0 THEN NaNVec
                      ELSE LET force == MouseForce(mouse_distance)
                           IN  V(-MulDiv(force, mouse_offset.x, mouse_distance),
                                 -MulDiv(force, mouse_offset.y, mouse_distance))

\* The gravity direction the shader uses: the uniform of "custom",
\* select(1.0, -1.0, is_gravity_reversed != 0u) in "particles", 1 in "reaction".
GravityDirection(sh, u) ==
    CASE sh = "custom"    -> u.gravity_direction
      [] sh = "particles" -> IF u.is_gravity_reversed # 0 THEN -1 ELSE 1
      [] OTHER            -> 1

\* The gravity of a shader without a direction: vec2(0.0, GRAVITY) * delta_time.
GravityTermWithoutDirection(sh, u, ms) ==
    V(0, MulDiv(GRAVITY(sh) * AccQ, ms, 1000))

\* "Apply gravity": vec2(0.0, GRAVITY * gravity_direction) * delta_time, in AccQ.
GravityTerm(sh, u, ms) ==
    V(0, MulDiv(GRAVITY(sh) * GravityDirection(sh, u) * AccQ, ms, 1000))

\* "Clamp acceleration to prevent physics breaking" (length(NaN) > x is false)
ClampAccel(sh, a) ==
    IF ~HasMaxAccel(sh) \/ a.nan THEN a
    ELSE IF Length(a) > MAX_ACCEL * AccQ THEN NormalizeTimes(a, MAX_ACCEL * AccQ)
    ELSE a

\* A velocity change so large that velocity + change does not fit VelQ: the
\* sum is then far above MAX_SPEED and the clamp that follows keeps only its
\* direction, which the model takes from the sum in whole px/s.
HugeChange(a, ms) ==
    MulDiv(Max(Abs(a.x), Abs(a.y)), ms, 1000 * AccQ) >= (2 ^ 27) \div VelQ

\* "Apply acceleration to velocity" and "Clamp velocity"
UpdateVelocity(velocity, a, ms) ==
    IF velocity.nan \/ a.nan THEN NaNVec
    ELSE IF HugeChange(a, ms)
    THEN NormalizeTimes(V(MulDiv(velocity.x, 1, VelQ) + MulDiv(a.x, ms, 1000 * AccQ),
                          MulDiv(velocity.y, 1, VelQ) + MulDiv(a.y, ms, 1000 * AccQ)),
                        MAX_SPEED * VelQ)
    ELSE LET v == V(velocity.x + MulDiv(a.x, ms * VelQ, 1000 * AccQ),
                    velocity.y + MulDiv(a.y, ms * VelQ, 1000 * AccQ))
         IN  IF Length(v) > MAX_SPEED * VelQ THEN NormalizeTimes(v, MAX_SPEED * VelQ)
             ELSE v

\* velocity * (DAMPING + min((1.0 - DAMPING) / (1.0 + length(velocity) - DAMP_FREE_SPEED), 1.0)):
\* with den = 1 + length - DAMP_FREE_SPEED in VelQ, the quotient is
\* VelQ / (1000 * den); it is +inf at den = 0, so that min takes 1.0.
AdaptiveDamp(c, speed) ==
    LET den == VelQ + speed - DAMP_FREE_SPEED * VelQ
        d   == DAMPING("particles")
    IN  IF den >= 0 /\ 1000 * Min(den, VelQ) <= (1000 - d) * VelQ
        THEN MulDiv(c, d, 1000) + c
        ELSE MulDiv(c, d, 1000)
             + Sign(den) * MulDiv(MulDiv(c, (1000 - d) * VelQ, 1000), 1, Abs(den))

\* "Dampen the velocity"
Dampen(sh, velocity) ==
    IF velocity.nan THEN NaNVec
    ELSE IF sh = "particles"
    THEN LET speed == Length(velocity)
         IN  V(AdaptiveDamp(velocity.x, speed), AdaptiveDamp(velocity.y, speed))
    ELSE V(MulDiv(velocity.x, DAMPING(sh), 1000), MulDiv(velocity.y, DAMPING(sh), 1000))

\* "Update position using velocity and delta time"
Move(position, velocity, ms) ==
    IF position.nan \/ velocity.nan THEN NaNVec
    ELSE V(position.x + MulDiv(velocity.x, ms * PosQ, 1000 * VelQ),
           position.y + MulDiv(velocity.y, ms * PosQ, 1000 * VelQ))

\* "Check boundaries and bounce" on one axis: <<position, velocity>> of the axis.
BounceAxis(p, v, res) ==
    IF p - CIRCLE_RADIUS * PosQ < 0 THEN <<CIRCLE_RADIUS * PosQ, -v>>
    ELSE IF p + CIRCLE_RADIUS * PosQ > res THEN <<res - CIRCLE_RADIUS * PosQ, -v>>
    ELSE <<p, v>>

\* Both axes; every comparison with NaN is false, so NaN stays.
Bounce(circle, u) ==
    IF circle.position.nan THEN circle
    ELSE LET bx == BounceAxis(circle.position.x, circle.velocity.x, u.resolution.x)
             by == BounceAxis(circle.position.y, circle.velocity.y, u.resolution.y)
         IN  [circle EXCEPT !.position = V(bx[1], by[1]),
                            !.velocity = V(bx[2], by[2])]

\* main() writing back a circle whose color it has not kept.
FinishWithoutColor(sh, circle, u, ms) ==
    LET a == ClampAccel(sh, VAdd(VAdd(circle.acceleration, MouseTerm(sh, circle, u)),
                                  GravityTerm(sh, u, ms)))
        v == Dampen(sh, UpdateVelocity(circle.velocity, a, ms))
    IN  Bounce([circle EXCEPT !.acceleration = a,
                              !.velocity = v,
                              !.position = Move(circle.position, v, ms),
                              !.color = <<0, 0, 0>>], u)

\* main() after the loop over the other particles: circle.acceleration holds
\* the sum of the pair terms; the result is the circle written back.
Finish(sh, circle, u, ms) ==
    LET a == ClampAccel(sh, VAdd(VAdd(circle.acceleration, MouseTerm(sh, circle, u)),
                                  GravityTerm(sh, u, ms)))
        v == Dampen(sh, UpdateVelocity(circle.velocity, a, ms))
    IN  Bounce([circle EXCEPT !.acceleration = a,
                              !.velocity = v,
                              !.position = Move(circle.position, v, ms)], u)

\* The loop over the other particles from index i on, reading buffer buf.
RECURSIVE PairLoop(_, _, _, _, _, _)
PairLoop(sh, circle, buf, index, i, ms) ==
    IF i > Len(buf) THEN circle
    ELSE IF i = index THEN PairLoop(sh, circle, buf, index, i + 1, ms)
    ELSE PairLoop(sh,
                  [circle EXCEPT !.acceleration =
                       VAdd(circle.acceleration, PairTerm(sh, circle, buf[i], ms))],
                  buf, index, i + 1, ms)

\* main() of invocation index (1-based here), every read taken from buf.
Main(sh, buf, u, ms, index) ==
    Finish(sh, PairLoop(sh, [buf[index] EXCEPT !.acceleration = Zero], buf, index, 1, ms), u, ms)

\* The invocations of one dispatch run one after another in the given order,
\* each reading the buffer as the earlier ones left it.
RECURSIVE RunSerial(_, _, _, _, _)
RunSerial(sh, buf, u, ms, order) ==
    IF order = <<>> THEN buf
    ELSE RunSerial(sh, [buf EXCEPT ![Head(order)] = Main(sh, buf, u, ms, Head(order))],
                   u, ms, Tail(order))

\* The orders in which n invocations can run one after another.
Orders(n) == {o \in [1..n -> 1..n] : \A a, b \in 1..n : o[a] = o[b] => a = b}

\* ------------------------------------------------------------ state

VARIABLES
    gShader,      \* the movement shader of the compute pipeline
    gCircles,     \* the storage buffer `circles`: a sequence of Circle
    gUniforms,    \* the uniform buffer `uniforms`
    gDeltaTime,   \* the uniform `delta_time`, in milliseconds
    gSteps,       \* dispatches completed
    invocations,  \* the invocations of the dispatch in flight (<<>>: none), each with
                  \* the reads of other elements and the writes it has made
    startCircles  \* `circles` as it was when the dispatch in flight began

VARIABLES
    variant,          \* the page: "particles" or "particles_custom"
    canvas,           \* <<htmlState.canvas.width, htmlState.canvas.height>>
    stage,            \* how far init() has come
    num_circles,      \* let num_circles
    circles,          \* let circles: the grid cell <<gridX, gridY>> of each circle
    buffers,          \* the GPU buffers createCircleBuffer has created, by id
    circleBuffer,     \* let circleBuffer: a buffer id, 0 while undefined
    bindGroup,        \* let bindGroup: the id of the circle buffer it binds, 0 while undefined
    computeBindGroup, \* let computeBindGroup: likewise
    gen,              \* the locals of a generateCircles call in progress
    toast,            \* the error toast and showErrorToast.hasNeverHideError
    numWorkgroups,    \* the workgroups of the last dispatchWorkgroups call (0: none yet)
    call              \* the last call of init, resizeCanvas, restartSimulation or
                      \* recompileComputeFromEditor: its
                      \* input, `handles` before it, what it handed to showErrorToast

VARIABLES
    computePipeline,   \* let computePipeline: the source it was built from, "" while undefined
    mousePosition,     \* let mousePosition, in pixels: <<x, y>>
    isMouseDown,       \* let isMouseDown
    gravityDirection,  \* let gravityDirection of particles_custom
    isGravityReversed, \* let isGravityReversed of particles
    gravityStatus      \* the text of #gravity-status

VARIABLES
    requests,  \* the callbacks requestAnimationFrame(update) has pending
    timers,    \* the 100 ms timers update has pending
    frame,     \* the calls of update so far
    queue,     \* device.queue: the passes submitted and not yet begun, each with its frame
    running,   \* the pass the GPU is executing (NoPass: none)
    submitted  \* the compute passes submitted so far

gpuVars == <<gShader, gCircles, gUniforms, gDeltaTime, gSteps>>

dispatchVars == <<invocations, startCircles>>

storeVars == <<num_circles, circles, buffers, circleBuffer, bindGroup, computeBindGroup>>

\* What restartSimulation assigns
handles == <<num_circles, circleBuffer, bindGroup, computeBindGroup>>

inputVars == <<mousePosition, isMouseDown, gravityDirection, isGravityReversed, gravityStatus>>

loopVars == <<requests, timers, frame, queue, running, submitted>>

hostVars == <<variant, canvas, stage, storeVars, gen, toast, numWorkgroups, call,
              computePipeline, inputVars, loopVars>>

vars == <<gpuVars, dispatchVars, hostVars>>

NoGen == [active |-> FALSE, caller |-> "", i |-> 0, occupied |-> {}]

NoToast == [message |-> "", hasNeverHideError |-> FALSE]

NoCall == [op |-> "", input |-> <<>>, before |-> <<>>, reports |-> <<>>, done |-> TRUE]

\* No pass: the GPU is idle.
NoPass == [pass |-> "", frame |-> 0, steps |-> 0, deltaTime |-> 0]

\* The interaction state as the page declares it.
NoInput ==
    /\ mousePosition = <<0, 0>>
    /\ isMouseDown = FALSE
    /\ gravityDirection = 0
    /\ isGravityReversed = FALSE
    /\ gravityStatus = ""

\* The render loop has not started.
NoLoop ==
    /\ requests = 0
    /\ timers = 0
    /\ frame = 0
    /\ queue = <<>>
    /\ running = NoPass
    /\ submitted = 0

\* The page is not part of the specifications of the shader alone.
NoHost ==
    /\ computePipeline = ""
    /\ NoInput
    /\ NoLoop
    /\ variant = "particles_custom"
    /\ canvas = <<0, 0>>
    /\ stage = "none"
    /\ num_circles = 0
    /\ circles = <<>>
    /\ buffers = <<>>
    /\ circleBuffer = 0
    /\ bindGroup = 0
    /\ computeBindGroup = 0
    /\ gen = NoGen
    /\ toast = NoToast
    /\ numWorkgroups = 0
    /\ call = NoCall

\* No dispatch is part of the specifications of the page alone.
NoGpu ==
    /\ gShader = "custom"
    /\ gCircles = <<>>
    /\ gUniforms = <<>>
    /\ gDeltaTime = 0
    /\ gSteps = 0
    /\ invocations = <<>>
    /\ startCircles = <<>>

\* ------------------------------------------------------------ SpecStep

\* Bounds of the inputs of SpecStep.
MaxParticles == 2

MaxSteps == 1

\* One unit of VelQ below DAMP_FREE_SPEED - 1, where the denominator of the
\* speed-adaptive damping is one unit below zero.
NearDampFree == (DAMP_FREE_SPEED - 1) * VelQ - 1

\* The velocity that the gravity of "particles" brings to NearDampFree in ms.
BeforeNearDampFree(ms) ==
    V(0, NearDampFree - MulDiv(MulDiv(GRAVITY("particles") * AccQ, ms, 1000), ms * VelQ, 1000 * AccQ))

StepDeltaTimes == {16, 100}

StepPositions ==
    {V(50 * PosQ, 50 * PosQ), V(58 * PosQ, 50 * PosQ), V(62 * PosQ, 50 * PosQ),
     V(150 * PosQ, 60 * PosQ)}

StepVelocities == {Zero, V(-60 * VelQ, 0), BeforeNearDampFree(16)}

StepResolutions == {V(200 * PosQ, 100 * PosQ), V(100 * PosQ, 100 * PosQ), V(8 * PosQ, 100 * PosQ)}

StepMouse == {V(50 * PosQ, 50 * PosQ), V(120 * PosQ, 50 * PosQ)}

\* Colors in thousandths: Math.random() * 0.5 + 0.5 per channel, as f32.
White == <<1000, 1000, 1000>>

Pale == <<500, 750, 1000>>

\* The uniform contents a shader can be given (fields it does not read are 0).
StepUniforms(sh) ==
    CASE sh = "custom" ->
            {[resolution |-> r, mouse_position |-> m, is_mouse_down |-> d,
              gravity_direction |-> g, is_gravity_reversed |-> 0] :
                 r \in StepResolutions, m \in StepMouse, d \in {0, 1}, g \in {-1, 0, 1}}
      [] sh = "particles" ->
            {[resolution |-> r, mouse_position |-> Zero, is_mouse_down |-> 0,
              gravity_direction |-> 0, is_gravity_reversed |-> g] :
                 r \in StepResolutions, g \in {0, 1}}
      [] OTHER ->
            {[resolution |-> r, mouse_position |-> Zero, is_mouse_down |-> 0,
              gravity_direction |-> 0, is_gravity_reversed |-> 0] : r \in StepResolutions}

StepCircles ==
    {[position |-> p, velocity |-> v, acceleration |-> Zero, color |-> White] :
        p \in StepPositions, v \in StepVelocities}

\* The particles after the first: at rest, on or 12 px right of (50, 50).
StepOthers ==
    {[position |-> p, velocity |-> Zero, acceleration |-> Zero, color |-> Pale] :
        p \in {V(50 * PosQ, 50 * PosQ), V(62 * PosQ, 50 * PosQ)}}

StepBuffers ==
    UNION {{<<c>> \o rest : c \in StepCircles, rest \in [1..(n - 1) -> StepOthers]} :
              n \in 1..MaxParticles}

InitStep ==
    /\ gShader \in Shaders
    /\ gCircles \in StepBuffers
    /\ gUniforms \in StepUniforms(gShader)
    /\ gDeltaTime \in StepDeltaTimes
    /\ gSteps = 0
    /\ invocations = <<>>
    /\ startCircles = <<>>
    /\ NoHost

\* One dispatch whose invocations do not overlap: they run in the given order.
ComputeSerial(order) ==
    /\ gSteps < MaxSteps
    /\ gCircles' = RunSerial(gShader, gCircles, gUniforms, gDeltaTime, order)
    /\ gSteps' = gSteps + 1
    /\ UNCHANGED <<gShader, gUniforms, gDeltaTime, dispatchVars, hostVars>>

\* One dispatch whose invocations run in lockstep: every read is done before
\* the first write.
ComputeLockstep ==
    /\ gSteps < MaxSteps
    /\ gCircles' = [i \in 1..Len(gCircles) |->
                        Main(gShader, gCircles, gUniforms, gDeltaTime, i)]
    /\ gSteps' = gSteps + 1
    /\ UNCHANGED <<gShader, gUniforms, gDeltaTime, dispatchVars, hostVars>>

NextStep ==
    \/ \E order \in Orders(Len(gCircles)) : ComputeSerial(order)
    \/ ComputeLockstep

SpecStep == InitStep /\ [][NextStep]_vars

\* ------------------------------------------------------------ claims on a step

InBounds(p, res) == CIRCLE_RADIUS * PosQ <= p /\ p <= res - CIRCLE_RADIUS * PosQ

\* C4: after any compute step every particle has CIRCLE_RADIUS <= position.x
\* <= resolution.x - CIRCLE_RADIUS and the same on y, for every resolution
\* and whatever the position, velocity and delta time were before.
C4_PositionInBounds ==
    gSteps >= 1 =>
        \A i \in 1..Len(gCircles) :
            /\ ~gCircles[i].position.nan
            /\ InBounds(gCircles[i].position.x, gUniforms.resolution.x)
            /\ InBounds(gCircles[i].position.y, gUniforms.resolution.y)

\* C5: after any compute step the magnitude of every particle's velocity is
\* at most MAX_SPEED.
C5_SpeedAtMostMax ==
    gSteps >= 1 =>
        \A i \in 1..Len(gCircles) :
            /\ ~gCircles[i].velocity.nan
            /\ Length(gCircles[i].velocity) <= MAX_SPEED * VelQ

\* ------------------------------------------------------------ SpecDispatch

\* Invocations of the dispatch whose index is not below arrayLength(&circles)
\* (the workgroup holds 128 invocations whatever the number of circles).
ExtraInvocations == 1

DispatchUniforms(sh) ==
    {u \in StepUniforms(sh) : /\ u.resolution = V(200 * PosQ, 100 * PosQ)
                              /\ u.mouse_position \in {Zero, V(120 * PosQ, 50 * PosQ)}}

InitDispatch ==
    /\ gShader \in Shaders
    /\ gCircles \in StepBuffers
    /\ gUniforms \in DispatchUniforms(gShader)
    /\ gDeltaTime = 16
    /\ gSteps = 0
    /\ invocations = <<>>
    /\ startCircles = <<>>
    /\ NoHost

\* computePass.dispatchWorkgroups(numWorkgroups) and queue.submit: every
\* invocation stands before the first statement of main.
Dispatch ==
    /\ invocations = <<>>
    /\ gSteps < MaxSteps
    /\ invocations' = [index \in 1..(Len(gCircles) + ExtraInvocations) |->
                          [pc |-> "main", circle |-> gCircles[1], i |-> 0, reads |-> {},
                           writes |-> {}]]
    /\ startCircles' = gCircles
    /\ UNCHANGED <<gpuVars, hostVars>>

\* main up to the loop: `if index >= num_circles { return; }`, then
\* `var circle = circles[index]` and `circle.acceleration = vec2(0.0, 0.0)`.
Enter(index) ==
    /\ invocations # <<>>
    /\ index \in DOMAIN invocations
    /\ invocations[index].pc = "main"
    /\ invocations' = [invocations EXCEPT ![index] =
           IF index > Len(gCircles) THEN [@ EXCEPT !.pc = "done"]
           ELSE [@ EXCEPT !.pc = "loop", !.i = 1,
                          !.circle = [gCircles[index] EXCEPT !.acceleration = Zero]]]
    /\ UNCHANGED <<gpuVars, startCircles, hostVars>>

\* One iteration of the loop: `let other_circle = circles[i]` reads the
\* buffer as it is now.
Iterate(index) ==
    /\ invocations # <<>>
    /\ index \in DOMAIN invocations
    /\ invocations[index].pc = "loop"
    /\ invocations[index].i <= Len(gCircles)
    /\ LET self == invocations[index]
       IN  invocations' = [invocations EXCEPT ![index] =
               IF self.i = index THEN [@ EXCEPT !.i = self.i + 1]
               ELSE [@ EXCEPT !.i = self.i + 1,
                              !.reads = @ \cup {<<self.i, gCircles[self.i].position>>},
                              !.circle.acceleration =
                                  VAdd(@, PairTerm(gShader, self.circle, gCircles[self.i],
                                                   gDeltaTime))]]
    /\ UNCHANGED <<gpuVars, startCircles, hostVars>>

\* main ending in `circles[0] = circle`, whatever the index.
WriteBackToFirst(index) ==
    /\ invocations # <<>>
    /\ index \in DOMAIN invocations
    /\ invocations[index].pc = "loop"
    /\ invocations[index].i > Len(gCircles)
    /\ LET circle == Finish(gShader, invocations[index].circle, gUniforms, gDeltaTime)
       IN  /\ gCircles' = [gCircles EXCEPT ![1] = circle]
           /\ invocations' = [invocations EXCEPT ![index] =
                                  [@ EXCEPT !.pc = "done", !.circle = circle,
                                            !.writes = @ \cup {1}]]
    /\ UNCHANGED <<gShader, gUniforms, gDeltaTime, gSteps, startCircles, hostVars>>

\* main after the loop, ending in `circles[index] = circle`.
WriteBack(index) ==
    /\ invocations # <<>>
    /\ index \in DOMAIN invocations
    /\ invocations[index].pc = "loop"
    /\ invocations[index].i > Len(gCircles)
    /\ LET circle == Finish(gShader, invocations[index].circle, gUniforms, gDeltaTime)
       IN  /\ gCircles' = [gCircles EXCEPT ![index] = circle]
           /\ invocations' = [invocations EXCEPT ![index] =
                                  [@ EXCEPT !.pc = "done", !.circle = circle,
                                            !.writes = @ \cup {index}]]
    /\ UNCHANGED <<gShader, gUniforms, gDeltaTime, gSteps, startCircles, hostVars>>

AllDone ==
    /\ invocations # <<>>
    /\ \A index \in DOMAIN invocations : invocations[index].pc = "done"

\* The submitted work is done.
Complete ==
    /\ AllDone
    /\ invocations' = <<>>
    /\ gSteps' = gSteps + 1
    /\ UNCHANGED <<gShader, gCircles, gUniforms, gDeltaTime, startCircles, hostVars>>

NextDispatch ==
    \/ Dispatch
    \/ \E index \in 1..(MaxParticles + ExtraInvocations) : Enter(index)
    \/ \E index \in 1..MaxParticles : Iterate(index)
    \/ \E index \in 1..MaxParticles : WriteBack(index)
    \/ Complete

SpecDispatch == InitDispatch /\ [][NextDispatch]_vars

\* C1: within one compute step every read an invocation makes of another
\* particle's position returns the value that particle had at the start of
\* the step.
C1_ReadsSeeStartOfStep ==
    invocations # <<>> =>
        \A index \in DOMAIN invocations :
            \A read \in invocations[index].reads :
                read[2] = startCircles[read[1]].position

\* C2: the buffer one compute step produces is the same for every schedule of
\* its invocations: it is the buffer of the schedule that reads everything
\* before it writes anything.
C2_ResultIsScheduleIndependent ==
    AllDone =>
        gCircles = [index \in 1..Len(startCircles) |->
                        Main(gShader, startCircles, gUniforms, gDeltaTime, index)]

\* ------------------------------------------------------------ the page

Variants == {"particles", "particles_custom"}

\* The largest count restartSimulation accepts.
MaxCircles(v) == IF v = "particles" THEN 1000 ELSE 2000

\* `const workgroupSize` of runComputeShader: 64 in particles; in
\* particles_custom device.limits.maxComputeWorkgroupSizeX, which is 256 on a
\* device that adapter.requestDevice() gives without requiredLimits.
maxComputeWorkgroupSizeX == 256

WorkgroupSize(v) == IF v = "particles" THEN 64 ELSE maxComputeWorkgroupSizeX

\* @workgroup_size(128) of the movement shaders
ShaderWorkgroupSize == 128

\* Math.ceil(a / b) for a >= 0 and b > 0
Ceil(a, b) == (a + b - 1) \div b

\* runComputeShader: the dispatch of Math.ceil(num_circles / workgroupSize)
\* workgroups.
RunComputeShader ==
    /\ stage = "running"
    /\ ~gen.active
    /\ numWorkgroups' = Ceil(num_circles, WorkgroupSize(variant))
    /\ UNCHANGED <<gpuVars, dispatchVars, computePipeline, inputVars, loopVars,
                   variant, canvas, stage, storeVars, gen, toast, call>>

\* ------------------------------------------------------------ SpecLaunch

\* runComputeShader on every count restartSimulation accepts.
InitLaunch ==
    /\ NoGpu
    /\ variant \in Variants
    /\ canvas = <<0, 0>>
    /\ stage = "running"
    /\ num_circles \in 1..MaxCircles(variant)
    /\ circles = <<>>
    /\ buffers = <<>>
    /\ circleBuffer = 0
    /\ bindGroup = 0
    /\ computeBindGroup = 0
    /\ gen = NoGen
    /\ toast = NoToast
    /\ numWorkgroups = 0
    /\ call = NoCall
    /\ computePipeline = "movement.wgsl"
    /\ NoInput
    /\ NoLoop

NextLaunch == RunComputeShader

SpecLaunch == InitLaunch /\ [][NextLaunch]_vars

\* The invocations a dispatch of numWorkgroups workgroups runs: their
\* global_invocation_id.x are 0 .. Launched - 1.
Launched == numWorkgroups * ShaderWorkgroupSize

\* C3: in every dispatch issued by runComputeShader each particle index in
\* [0, num_circles) is processed by exactly one invocation: numWorkgroups
\* times the shader's workgroup size is at least num_circles.
C3_EveryIndexHasAnInvocation ==
    numWorkgroups > 0 =>
        /\ Launched >= num_circles
        /\ \A index \in 0..(num_circles - 1) :
               Cardinality({id \in 0..(Launched - 1) : id = index}) = 1

\* ------------------------------------------------------------ Spec: helpers

\* parseInt(s) of a string given as the sequence of its characters:
\* leading blanks, an optional sign, then the longest run of decimal digits;
\* NaN when there is no digit.
Digits == <<"0", "1", "2", "3", "4", "5", "6", "7", "8", "9">>

IsDigit(c) == \E d \in 1..Len(Digits) : Digits[d] = c

DigitValue(c) == (CHOOSE d \in 1..Len(Digits) : Digits[d] = c) - 1

RECURSIVE SkipBlanks(_)
SkipBlanks(s) == IF s # <<>> /\ Head(s) = " " THEN SkipBlanks(Tail(s)) ELSE s

\* <<number of digits read, their value>>
RECURSIVE ParseDigits(_, _, _)
ParseDigits(s, n, value) ==
    IF s # <<>> /\ IsDigit(Head(s))
    THEN ParseDigits(Tail(s), n + 1, value * 10 + DigitValue(Head(s)))
    ELSE <<n, value>>

ParseInt(s) ==
    LET t      == SkipBlanks(s)
        signed == t # <<>> /\ Head(t) \in {"+", "-"}
        d      == ParseDigits(IF signed THEN Tail(t) ELSE t, 0, 0)
    IN  IF d[1] = 0 THEN [nan |-> TRUE, value |-> 0]
        ELSE [nan |-> FALSE, value |-> IF signed /\ Head(t) = "-" THEN -d[2] ELSE d[2]]

\* The validation with its lower bound off by one: 0 passes.
ValidCountFromZero(v, numCircles) ==
    ~(numCircles.nan \/ numCircles.value < 0 \/ numCircles.value > MaxCircles(v))

\* !(isNaN(numCircles) || numCircles < 1 || numCircles > max)
ValidCount(v, numCircles) ==
    ~(numCircles.nan \/ numCircles.value < 1 \/ numCircles.value > MaxCircles(v))

ValidationMessage(v) ==
    IF v = "particles" THEN "Number of circles must be between 1 and 1000"
    ELSE "Number of circles must be between 1 and 2000"

\* showErrorToast(message, neverHide)
ShowErrorToast(t, message, neverHide) ==
    IF t.hasNeverHideError /\ ~neverHide THEN t
    ELSE [message |-> message, hasNeverHideError |-> t.hasNeverHideError \/ neverHide]

\* showErrorToast(m) for each m of messages, in order
RECURSIVE ShowErrorToasts(_, _)
ShowErrorToasts(t, messages) ==
    IF messages = <<>> THEN t
    ELSE ShowErrorToasts(ShowErrorToast(t, Head(messages), FALSE), Tail(messages))

\* The side of a grid cell of generateCircles: CIRCLE_SPAWN_RADIUS
\* (4 * CIRCLE_RADIUS) in particles_custom, 2 * CIRCLE_SPAWN_RADIUS
\* (2 * 1.5 * CIRCLE_RADIUS) in particles.
CellSize(v) == IF v = "particles" THEN (2 * 3 * CIRCLE_RADIUS) \div 2 ELSE 4 * CIRCLE_RADIUS

\* occupied.length
Columns(v, c) == c[1] \div CellSize(v)

\* The length each occupied[gridX] is created with
Rows(v, c) == c[2] \div CellSize(v)

\* Math.floor(Math.random() * occupied.length)
GridXs(v, c) == 0..(Columns(v, c) - 1)

\* Math.floor(Math.random() * occupied[0].length): with no rows occupied[0]
\* has length 0, or 1 once occupied[0][0] was set, and the product floors to 0.
GridYs(v, c) == 0..(Max(Rows(v, c), 1) - 1)

\* num_circles * 12 * 4
BufferSize(n) == n * 12 * 4

\* device.createBuffer
CreateBuffer(bs, size) == Append(bs, [size |-> size, destroyed |-> FALSE, data |-> <<>>])

\* circleBuffer.destroy() under `if (circleBuffer)`
DestroyBuffer(bs, id) ==
    IF id = 0 THEN bs ELSE [bs EXCEPT ![id] = [@ EXCEPT !.destroyed = TRUE, !.data = <<>>]]

\* updateCircleBuffer: circles[i] for i < num_circles, written at offset 0;
\* circles[i].x of a missing circle throws inside its try, nothing is written.
UpdateCircleBuffer(bs, id, cs, n) ==
    IF Len(cs) < n \/ id = 0 THEN bs
    ELSE [bs EXCEPT ![id] = [@ EXCEPT !.data = SubSeq(cs, 1, n)]]

\* renderPipeline is assigned when createRenderPipeline of init() is through
RenderPipelineDefined == stage \in {"computePipeline", "running"}

\* createBindGroups reaches its second createBindGroup: renderPipeline is
\* defined, and so is the layout of the compute bind group, which particles
\* takes from computePipeline (assigned when createComputePipeline of init()
\* is through) and particles_custom from ensureComputeLayouts.
ComputeLayoutDefined ==
    /\ RenderPipelineDefined
    /\ variant = "particles" => stage = "running"

\* gpuState.device is assigned when initDeviceAndContext of init() is through
DeviceDefined == stage # "device"

\* uniformsBuffer is assigned by createUniformsBuffer, the first thing init()
\* does with the device
UniformsBufferDefined == DeviceDefined

\* The bits of the f32 1.0, which the shaders read as a u32
OneAsU32 == 1065353216

\* The Float32Array of updateUniformsBuffer as the shader of the page reads
\* it: canvas c, mouse position m and button, gravity direction g
\* (particles_custom) or reversed flag (particles).
UniformData(v, c, m, down, g, reversed) ==
    IF v = "particles"
    THEN [resolution |-> V(c[1] * PosQ, c[2] * PosQ), mouse_position |-> Zero,
          is_mouse_down |-> 0, gravity_direction |-> 0,
          is_gravity_reversed |-> IF reversed THEN OneAsU32 ELSE 0]
    ELSE [resolution |-> V(c[1] * PosQ, c[2] * PosQ),
          mouse_position |-> V(m[1] * PosQ, m[2] * PosQ),
          is_mouse_down |-> IF down THEN OneAsU32 ELSE 0, gravity_direction |-> g,
          is_gravity_reversed |-> 0]

\* ------------------------------------------------------------ Spec: the page

\* Bounds: the circles the page starts with (128 on the page, with its grid
\* scaled down alike) and the circle buffers one run creates.
InitNumCircles == 2

MaxBuffers == 2

\* <<window.innerWidth, window.innerHeight>>: two cells by two, narrower than
\* a cell, lower than a cell.
WindowSizes == {<<40, 40>>, <<10, 40>>, <<40, 10>>}

\* What the count input can hold when restartSimulation reads it.
RestartInputs ==
    {<<"0">>, <<"2">>, <<"3", ".", "7">>, <<"1", "2", "a", "b", "c">>,
     <<"a", "b", "c">>, <<"1", "0", "0", "1">>, <<"2", "0", "0", "1">>}

\* parseInt of each of them, computed once
ParseIntOf == [s \in RestartInputs |-> ParseInt(s)]

Init ==
    /\ NoGpu
    /\ variant \in Variants
    /\ canvas \in WindowSizes
    /\ stage = "device"
    /\ num_circles = InitNumCircles
    /\ circles = <<>>
    /\ buffers = <<>>
    /\ circleBuffer = 0
    /\ bindGroup = 0
    /\ computeBindGroup = 0
    /\ gen = NoGen
    /\ toast = NoToast
    /\ numWorkgroups = 0
    /\ call = NoCall
    /\ computePipeline = ""
    /\ NoInput
    /\ NoLoop

\* generateCircles up to its loop: `circles = []` and the grid.
GenStart(caller) == [active |-> TRUE, caller |-> caller, i |-> 0, occupied |-> {}]

\* What the caller of generateCircles does once it has returned the circles cs.
Return(caller, cs) ==
    /\ buffers' = UpdateCircleBuffer(buffers, circleBuffer, cs, num_circles)
    /\ CASE caller = "init" ->
              /\ stage' = "renderPipeline"
              /\ call' = [call EXCEPT !.done = TRUE]
              /\ UNCHANGED <<bindGroup, computeBindGroup, toast>>
         [] caller = "restartSimulation" ->
              LET reports == <<"Error creating bind groups", "Error restarting simulation">>
              IN  /\ bindGroup' = IF RenderPipelineDefined THEN circleBuffer ELSE bindGroup
                  /\ computeBindGroup' =
                         IF ComputeLayoutDefined THEN circleBuffer ELSE computeBindGroup
                  /\ IF ComputeLayoutDefined
                     THEN /\ call' = [call EXCEPT !.done = TRUE]
                          /\ UNCHANGED toast
                     ELSE /\ toast' = ShowErrorToasts(toast, reports)
                          /\ call' = [call EXCEPT !.done = TRUE, !.reports = @ \o reports]
                  /\ UNCHANGED stage
         [] OTHER ->
              /\ call' = [call EXCEPT !.done = TRUE]
              /\ UNCHANGED <<stage, bindGroup, computeBindGroup, toast>>

\* One pass of the do/while of generateCircles that ends it: the cell is
\* free, the circle is pushed; after the last circle the caller goes on.
GeneratePlace(gridX, gridY) ==
    /\ gen.active
    /\ gridX \in GridXs(variant, canvas)
    /\ gridY \in GridYs(variant, canvas)
    /\ <<gridX, gridY>> \notin gen.occupied
    /\ circles' = Append(circles, <<gridX, gridY>>)
    /\ IF gen.i + 1 < num_circles
       THEN /\ gen' = [gen EXCEPT !.i = @ + 1, !.occupied = @ \cup {<<gridX, gridY>>}]
            /\ UNCHANGED <<buffers, stage, bindGroup, computeBindGroup, toast, call>>
       ELSE /\ gen' = NoGen
            /\ Return(gen.caller, circles')
    /\ UNCHANGED <<gpuVars, dispatchVars, computePipeline, inputVars, loopVars,
                   variant, canvas, num_circles, circleBuffer,
                   numWorkgroups>>

\* One pass of the do/while that repeats it: the cell is occupied.
GenerateRetry(gridX, gridY) ==
    /\ gen.active
    /\ gridX \in GridXs(variant, canvas)
    /\ gridY \in GridYs(variant, canvas)
    /\ <<gridX, gridY>> \in gen.occupied
    /\ UNCHANGED vars

\* resizeCanvas that leaves the uniform buffer as it is.
ResizedUniformsKept(c) == gUniforms

\* resizeCanvas: `if (uniformsBuffer) updateUniformsBuffer()` with the canvas
\* already resized to c: the contents of the uniform buffer after it.
ResizedUniforms(c) ==
    IF UniformsBufferDefined
    THEN UniformData(variant, c, mousePosition, isMouseDown, gravityDirection,
                     isGravityReversed)
    ELSE gUniforms

\* The resize listener: resizeCanvas of utils.js, updateUniformsBuffer if
\* there is a uniform buffer, then generateCircles and updateCircleBuffer if
\* there is a circle buffer. With no column
\* occupied[0].length throws out of the listener, to the window's error
\* listener.
ResizeCanvas(size) ==
    /\ ~gen.active
    /\ canvas' = <<Max(size[1], 1), size[2]>>
    /\ gUniforms' = ResizedUniforms(canvas')
    /\ IF circleBuffer = 0
       THEN /\ call' = [NoCall EXCEPT !.op = "resizeCanvas"]
            /\ UNCHANGED <<circles, gen, toast>>
       ELSE IF Columns(variant, canvas') = 0
       THEN /\ circles' = <<>>
            /\ toast' = ShowErrorToast(toast, "JavaScript Error", FALSE)
            /\ call' = [NoCall EXCEPT !.op = "resizeCanvas", !.reports = <<"JavaScript Error">>]
            /\ UNCHANGED gen
       ELSE /\ circles' = <<>>
            /\ gen' = GenStart("resizeCanvas")
            /\ call' = [NoCall EXCEPT !.op = "resizeCanvas", !.done = FALSE]
            /\ UNCHANGED toast
    /\ UNCHANGED <<gShader, gCircles, gDeltaTime, gSteps, dispatchVars, computePipeline,
                   inputVars, loopVars, variant, stage, num_circles, buffers, circleBuffer,
                   bindGroup, computeBindGroup, numWorkgroups>>

\* init() from the device on: createUniformsBuffer, then createCircleBuffer,
\* whose generateCircles
\* either throws (init reports and ends) or runs its loop.
InitDevice ==
    /\ stage = "device"
    /\ ~gen.active
    /\ buffers' = CreateBuffer(buffers, BufferSize(num_circles))
    /\ circleBuffer' = Len(buffers')
    /\ circles' = <<>>
    /\ gUniforms' = UniformData(variant, canvas, mousePosition, isMouseDown,
                                gravityDirection, isGravityReversed)
    /\ IF Columns(variant, canvas) = 0
       THEN LET reports == <<"Error creating circle buffer", "Error">>
            IN  /\ stage' = "failed"
                /\ toast' = ShowErrorToasts(toast, reports)
                /\ call' = [NoCall EXCEPT !.op = "init", !.reports = reports]
                /\ UNCHANGED gen
       ELSE /\ stage' = "circleBuffer"
            /\ gen' = GenStart("init")
            /\ call' = [NoCall EXCEPT !.op = "init", !.done = FALSE]
            /\ UNCHANGED toast
    /\ UNCHANGED <<gShader, gCircles, gDeltaTime, gSteps, dispatchVars, computePipeline,
                   inputVars, loopVars, variant, canvas, num_circles, bindGroup,
                   computeBindGroup, numWorkgroups>>

\* init(): `await createRenderPipeline()` is through.
InitRenderPipeline ==
    /\ stage = "renderPipeline"
    /\ ~gen.active
    /\ stage' = "computePipeline"
    /\ call' = [NoCall EXCEPT !.op = "init"]
    /\ UNCHANGED <<gpuVars, dispatchVars, computePipeline, inputVars, loopVars,
                   variant, canvas, storeVars, gen, toast, numWorkgroups>>

\* init(): `await createComputePipeline()` is through, createBindGroups, update().
InitComputePipeline ==
    /\ stage = "computePipeline"
    /\ ~gen.active
    /\ stage' = "running"
    /\ bindGroup' = circleBuffer
    /\ computeBindGroup' = circleBuffer
    /\ computePipeline' = "movement.wgsl"
    /\ call' = [NoCall EXCEPT !.op = "init"]
    /\ UNCHANGED <<gpuVars, dispatchVars, inputVars, loopVars,
                   variant, canvas, num_circles, circles, buffers,
                   circleBuffer, gen, toast, numWorkgroups>>

\* hideErrorToast: the 10 s timer or the close button.
HideErrorToast ==
    /\ ~gen.active
    /\ toast.message # ""
    /\ toast' = [toast EXCEPT !.message = ""]
    /\ UNCHANGED <<gpuVars, dispatchVars, computePipeline, inputVars, loopVars,
                   variant, canvas, stage, storeVars, gen, numWorkgroups,
                   call>>

\* What the shader editor can hold when its confirm button is clicked: blank
\* text, WGSL with a compilation error, WGSL that compiles.
ShaderSources == {"", "errors", "valid"}

\* recompileComputeFromEditor that takes every compilation for clean.
HasNoErrors(code) == FALSE

\* recompileComputeFromEditor: errors.length > 0, the compilation info of the
\* source has a message of type error.
HasErrors(code) == code = "errors"

\* recompileComputeFromEditor of particles_custom, from the resumption of its
\* await on: the checks of the source, the new pipeline and the new compute
\* bind group over the current circleBuffer. Compilation errors go to a toast
\* that is never hidden. createShaderModule throws while gpuState.device is
\* null, createBindGroup while timeBuffer is undefined (init() failed before
\* createTimeBuffer).
RecompileComputeFromEditor(code) ==
    /\ variant = "particles_custom"
    /\ ~gen.active
    /\ IF code = ""
       THEN /\ toast' = ShowErrorToast(toast, "Shader source is empty.", FALSE)
            /\ UNCHANGED <<computePipeline, computeBindGroup>>
       ELSE IF ~DeviceDefined
       THEN /\ toast' = ShowErrorToast(toast, "Recompile failed", FALSE)
            /\ UNCHANGED <<computePipeline, computeBindGroup>>
       ELSE IF HasErrors(code)
       THEN /\ toast' = ShowErrorToast(toast, "Shader Errors", TRUE)
            /\ UNCHANGED <<computePipeline, computeBindGroup>>
       ELSE IF stage = "failed"
       THEN /\ toast' = ShowErrorToast(toast, "Recompile failed", FALSE)
            /\ UNCHANGED <<computePipeline, computeBindGroup>>
       ELSE /\ computePipeline' = "editor"
            /\ computeBindGroup' = circleBuffer
            /\ UNCHANGED toast
    /\ call' = [NoCall EXCEPT !.op = "recompileComputeFromEditor"]
    /\ UNCHANGED <<gpuVars, dispatchVars, inputVars, loopVars,
                   variant, canvas, stage, num_circles, circles, buffers,
                   circleBuffer, bindGroup, gen, numWorkgroups>>

\* restartSimulation(newNumCircles), up to the loop of generateCircles.
RestartSimulation(newNumCircles) ==
    /\ ~gen.active
    /\ LET numCircles == ParseIntOf[newNumCircles]
           started    == [op |-> "restartSimulation", input |-> newNumCircles,
                          before |-> handles, reports |-> <<>>, done |-> TRUE]
           failed     == <<"Error creating circle buffer", "Error restarting simulation">>
       IN  IF ~ValidCount(variant, numCircles)
           THEN /\ toast' = ShowErrorToast(toast, ValidationMessage(variant), FALSE)
                /\ call' = [started EXCEPT !.reports = <<ValidationMessage(variant)>>]
                /\ UNCHANGED <<storeVars, gen>>
           ELSE /\ num_circles' = numCircles.value
                /\ IF ~DeviceDefined
                   THEN \* gpuState.device is null: createBuffer throws
                        /\ toast' = ShowErrorToasts(toast, failed)
                        /\ call' = [started EXCEPT !.reports = failed]
                        /\ UNCHANGED <<circles, buffers, circleBuffer, gen>>
                   ELSE /\ Len(buffers) < MaxBuffers
                        /\ buffers' = CreateBuffer(DestroyBuffer(buffers, circleBuffer),
                                                   BufferSize(num_circles'))
                        /\ circleBuffer' = Len(buffers')
                        /\ circles' = <<>>
                        /\ IF Columns(variant, canvas) = 0
                           THEN /\ toast' = ShowErrorToasts(toast, failed)
                                /\ call' = [started EXCEPT !.reports = failed]
                                /\ UNCHANGED gen
                           ELSE /\ gen' = GenStart("restartSimulation")
                                /\ call' = [started EXCEPT !.done = FALSE]
                                /\ UNCHANGED toast
                /\ UNCHANGED <<bindGroup, computeBindGroup>>
    /\ UNCHANGED <<gpuVars, dispatchVars, computePipeline, inputVars, loopVars,
                   variant, canvas, stage, numWorkgroups>>

\* Every cell of every grid
AllCells == UNION {GridXs(v, c) \X GridYs(v, c) : v \in Variants, c \in WindowSizes}

Next ==
    \/ InitDevice
    \/ InitRenderPipeline
    \/ InitComputePipeline
    \/ \E size \in WindowSizes : ResizeCanvas(size)
    \/ \E newNumCircles \in RestartInputs : RestartSimulation(newNumCircles)
    \/ \E cell \in AllCells : GeneratePlace(cell[1], cell[2])
    \/ \E cell \in AllCells : GenerateRetry(cell[1], cell[2])
    \/ \E code \in ShaderSources : RecompileComputeFromEditor(code)
    \/ HideErrorToast

Spec == Init /\ [][Next]_vars

\* ------------------------------------------------------------ claims on the page

\* runRenderShader: drawIndexed(CIRCLE_SEGMENTS * 3, num_circles)
InstanceCount == num_circles

\* The text of an integer: digits after an optional sign.
IsIntegerText(s) ==
    LET d == IF s # <<>> /\ Head(s) \in {"+", "-"} THEN Tail(s) ELSE s
    IN  d # <<>> /\ \A k \in 1..Len(d) : IsDigit(d[k])

\* The last handler was restartSimulation and it has returned.
Restarted == call.op = "restartSimulation" /\ call.done

\* This step is the call restartSimulation(input) (which `call` then records).
RestartStep(input) ==
    /\ call'.op = "restartSimulation"
    /\ call'.input = input
    /\ RestartSimulation(input)

\* A count below 1 or above the maximum, or input that parses to NaN.
OutOfRange(input) ==
    LET n == ParseIntOf[input]
    IN  n.nan \/ n.value < 1 \/ n.value > MaxCircles(variant)

C7_NonIntegerRejected ==
    [][\A input \in RestartInputs :
           (RestartStep(input) /\ ~IsIntegerText(input)) =>
               /\ UNCHANGED storeVars
               /\ call'.reports = <<ValidationMessage(variant)>>]_vars

\* C8: a restartSimulation with a valid count in which an error occurred
\* part-way leaves num_circles, the circle buffer and both bind groups as
\* they were before the call.
C8_RestartAllOrNothing ==
    (Restarted /\ ~OutOfRange(call.input) /\ call.reports # <<>>) =>
        /\ handles = call.before
        /\ circleBuffer # 0 => ~buffers[circleBuffer].destroyed

\* C9: after restartSimulation(n) with a valid n has returned, circles.length
\* = num_circles = n, the circle buffer holds n * 48 bytes and the render
\* pass draws n instances.
C9_RestartHoldsExactlyN ==
    (Restarted /\ IsIntegerText(call.input) /\ ~OutOfRange(call.input)) =>
        LET n == ParseIntOf[call.input].value
        IN  /\ Len(circles) = n
            /\ num_circles = n
            /\ circleBuffer # 0
            /\ buffers[circleBuffer].size = n * 48
            /\ ~buffers[circleBuffer].destroyed
            /\ InstanceCount = n

\* C10: generateCircles terminates for every num_circles and canvas size:
\* its do/while loop never runs with every cell of the grid occupied (it
\* would then repeat forever).
C10_GenerateCirclesCanEnd ==
    gen.active =>
        \E gridX \in GridXs(variant, canvas), gridY \in GridYs(variant, canvas) :
            <<gridX, gridY>> \notin gen.occupied

\* ------------------------------------------------------------ claims on the spawn

\* The offset of a spawned circle in its cell: CIRCLE_RADIUS in
\* particles_custom, CIRCLE_SPAWN_RADIUS (1.5 * CIRCLE_RADIUS) in particles.
SpawnOffset(v) ==
    IF v = "particles" THEN (3 * CIRCLE_RADIUS * PosQ) \div 2 ELSE CIRCLE_RADIUS * PosQ

\* x = gridX * cell + offset, y = gridY * cell + offset
SpawnPosition(v, cell) ==
    V(cell[1] * CellSize(v) * PosQ + SpawnOffset(v),
      cell[2] * CellSize(v) * PosQ + SpawnOffset(v))

\* generateCircles has returned and `circles` is what it made.
Generated == ~gen.active /\ circles # <<>>

\* C11: once generateCircles has returned no two circles have the same grid
\* cell, and every circle lies within [CIRCLE_RADIUS, canvas size -
\* CIRCLE_RADIUS] on both axes.
C11_SpawnDistinctAndInBounds ==
    Generated =>
        /\ \A i, j \in 1..Len(circles) : circles[i] = circles[j] => i = j
        /\ \A i \in 1..Len(circles) :
               LET p == SpawnPosition(variant, circles[i])
               IN  /\ InBounds(p.x, canvas[1] * PosQ)
                   /\ InBounds(p.y, canvas[2] * PosQ)

\* ------------------------------------------------------------ SpecFrame

\* The movement shader a page runs
ShaderOf(v) == IF v = "particles" THEN "particles" ELSE "custom"

\* currentTime - lastTime of a frame, in ms: the first call update() (0), less
\* than, at and above the minimum, a frame at 60 Hz, at and above the cap, a
\* tab that was in the background for 10 s.
FrameIntervals == {0, 1, 2, 16, 100, 101, 10000}

\* update: `deltaTime > 0.001`, and in particles `deltaTime < 0.1`
StepRunsFromZero(v, deltaTime) ==
    deltaTime > 0 /\ (v = "particles" => deltaTime < 100)

StepRuns(v, deltaTime) ==
    deltaTime > 1 /\ (v = "particles" => deltaTime < 100)

\* The argument of runComputeShader: deltaTime in particles,
\* Math.min(deltaTime, 0.1) in particles_custom.
StepDeltaTime(v, deltaTime) == IF v = "particles" THEN deltaTime ELSE Min(deltaTime, 100)

\* The buffers one dispatch can leave: its invocations one after another in
\* some order, or in lockstep.
Dispatched(sh, buf, u, ms) ==
    {RunSerial(sh, buf, u, ms, order) : order \in Orders(Len(buf))}
        \cup {[i \in 1..Len(buf) |-> Main(sh, buf, u, ms, i)]}

\* One or two circles, the first moving left at SPEED.
FrameBuffers ==
    {buf \in StepBuffers : Len(buf) <= 2 /\ buf[1].velocity = V(-60 * VelQ, 0)}

\* The mouse is up.
FrameUniforms(sh) ==
    {u \in DispatchUniforms(sh) : u.is_mouse_down = 0}

\* The pages in their render loop, the circle buffer holding gCircles.
InitFrame ==
    /\ variant \in Variants
    /\ gShader = ShaderOf(variant)
    /\ gCircles \in FrameBuffers
    /\ gUniforms \in FrameUniforms(gShader)
    /\ gDeltaTime = 0
    /\ gSteps = 0
    /\ invocations = <<>>
    /\ startCircles = <<>>
    /\ canvas = <<200, 100>>
    /\ stage = "running"
    /\ num_circles = Len(gCircles)
    /\ circles = <<>>
    /\ buffers = <<>>
    /\ circleBuffer = 0
    /\ bindGroup = 0
    /\ computeBindGroup = 0
    /\ gen = NoGen
    /\ toast = NoToast
    /\ numWorkgroups = 0
    /\ call = NoCall
    /\ computePipeline = "movement.wgsl"
    /\ NoInput
    /\ NoLoop

\* update(currentTime) with currentTime - lastTime = deltaTime: the compute
\* step, if it runs, with updateTimeBuffer and the dispatch; the render pass
\* changes nothing of the buffers.
Update(deltaTime) ==
    /\ stage = "running"
    /\ ~gen.active
    /\ gSteps < MaxSteps
    /\ call' = [NoCall EXCEPT !.op = "update", !.input = <<deltaTime>>]
    /\ IF StepRuns(variant, deltaTime)
       THEN /\ gDeltaTime' = StepDeltaTime(variant, deltaTime)
            /\ numWorkgroups' = Ceil(num_circles, WorkgroupSize(variant))
            /\ gCircles' \in Dispatched(gShader, gCircles, gUniforms, gDeltaTime')
            /\ gSteps' = gSteps + 1
       ELSE UNCHANGED <<gDeltaTime, numWorkgroups, gCircles, gSteps>>
    /\ UNCHANGED <<gShader, gUniforms, dispatchVars, computePipeline, inputVars, loopVars,
                   variant, canvas, stage, storeVars, gen, toast>>

NextFrame == \E deltaTime \in FrameIntervals : Update(deltaTime)

SpecFrame == InitFrame /\ [][NextFrame]_vars

\* This step is the frame update() with the given deltaTime.
FrameStep(deltaTime) ==
    /\ call'.op = "update"
    /\ call'.input = <<deltaTime>>
    /\ Update(deltaTime)

\* C12: in a frame whose deltaTime is at most 0.001 s no compute step runs
\* and the particle buffer is unchanged; in a frame whose deltaTime is above
\* 0.1 s the step is skipped (particles) or run with exactly 0.1
\* (particles_custom); every delta time given to runComputeShader lies in
\* (0.001, 0.1].
C12_DeltaTimeIsGuarded ==
    [][\A deltaTime \in FrameIntervals :
           FrameStep(deltaTime) =>
               /\ deltaTime <= 1 => UNCHANGED <<gCircles, gDeltaTime, gSteps>>
               /\ deltaTime > 100 =>
                      IF variant = "particles"
                      THEN UNCHANGED <<gCircles, gDeltaTime, gSteps>>
                      ELSE /\ gSteps' = gSteps + 1
                           /\ gDeltaTime' = 100
                           /\ gCircles' \in Dispatched(gShader, gCircles, gUniforms, 100)
               /\ gSteps' # gSteps => gDeltaTime' > 1 /\ gDeltaTime' <= 100]_vars

\* A frame after 10 s in particles_custom has run its step with 0.1 s.
C12_Witness ==
    /\ call.op = "update"
    /\ call.input = <<10000>>
    /\ variant = "particles_custom"
    /\ gSteps = 1
    /\ gDeltaTime = 100
    /\ gCircles[1].position # V(50 * PosQ, 50 * PosQ)

\* ------------------------------------------------------------ more claims on a step

\* length(b.position - a.position)
Separation(a, b) == Length(VSub(b.position, a.position))

\* The step is free of gravity, mouse and boundary: no gravity term, the
\* mouse up, every particle of buf within the boundaries.
FreeStep(sh, buf, u, ms) ==
    /\ GravityTerm(sh, u, ms) = Zero
    /\ u.is_mouse_down = 0
    /\ \A i \in 1..Len(buf) :
           /\ ~buf[i].position.nan
           /\ InBounds(buf[i].position.x, u.resolution.x)
           /\ InBounds(buf[i].position.y, u.resolution.y)

\* C13: two particles closer than 2 * CIRCLE_RADIUS (not coincident) with
\* zero velocity, no gravity, mouse or boundary effect: after one compute step
\* their separation has increased and their velocity changes are equal and
\* opposite.
C13_CloseParticlesRepel ==
    [][(/\ gSteps' = gSteps + 1
        /\ Len(gCircles) = 2
        /\ gCircles[1].velocity = Zero
        /\ gCircles[2].velocity = Zero
        /\ Separation(gCircles[1], gCircles[2]) > 0
        /\ Separation(gCircles[1], gCircles[2]) < 2 * CIRCLE_RADIUS * PosQ
        /\ FreeStep(gShader, gCircles, gUniforms, gDeltaTime)) =>
           /\ Separation(gCircles'[1], gCircles'[2]) > Separation(gCircles[1], gCircles[2])
           /\ gCircles'[1].velocity = VSub(Zero, gCircles'[2].velocity)]_vars

\* No component of the circle is NaN.
Defined(circle) ==
    ~circle.position.nan /\ ~circle.velocity.nan /\ ~circle.acceleration.nan

\* C14: two particles at exactly the same position are a pair without
\* contribution: with the mouse up, the step of a buffer free of NaN that
\* holds such a pair leaves no NaN in any particle's acceleration, velocity
\* or position, in every movement shader.
C14_CoincidentPairIsHarmless ==
    [][(/\ gSteps' = gSteps + 1
        /\ gUniforms.is_mouse_down = 0
        /\ \A i \in 1..Len(gCircles) : Defined(gCircles[i])
        /\ \E i, j \in 1..Len(gCircles) :
               i # j /\ gCircles[i].position = gCircles[j].position) =>
           \A i \in 1..Len(gCircles') : Defined(gCircles'[i])]_vars

\* C15: with gravity direction 0 and the mouse up, a single particle at rest
\* within the boundaries is left by a step of the particles_custom shader
\* where it was, at rest; the step's result admits the next step alike, so
\* this holds for any number of steps.
C15_StillParticleStaysStill ==
    [][(/\ gSteps' = gSteps + 1
        /\ gShader = "custom"
        /\ Len(gCircles) = 1
        /\ gUniforms.gravity_direction = 0
        /\ gUniforms.is_mouse_down = 0
        /\ gCircles[1].velocity = Zero
        /\ ~gCircles[1].position.nan
        /\ InBounds(gCircles[1].position.x, gUniforms.resolution.x)
        /\ InBounds(gCircles[1].position.y, gUniforms.resolution.y)) =>
           /\ gCircles'[1].position = gCircles[1].position
           /\ gCircles'[1].velocity = Zero]_vars

\* Such a particle after a step.
C15_Witness ==
    /\ gSteps >= 1
    /\ gShader = "custom"
    /\ Len(gCircles) = 1
    /\ gUniforms.gravity_direction = 0
    /\ gUniforms.is_mouse_down = 0
    /\ gCircles[1].velocity = Zero
    /\ gCircles[1].acceleration = Zero
    /\ gCircles[1].position = V(150 * PosQ, 60 * PosQ)

\* ------------------------------------------------------------ more claims on a dispatch

\* C16: a compute step never changes a particle's color: at every point of
\* a dispatch circles[i].color is the color the buffer held for i when the
\* dispatch began, the color of the spawn, each channel in [0.5, 1.0].
C16_ColorIsKept ==
    invocations # <<>> =>
        /\ Len(gCircles) = Len(startCircles)
        /\ \A i \in 1..Len(gCircles) :
               /\ gCircles[i].color = startCircles[i].color
               /\ \A channel \in 1..3 :
                      gCircles[i].color[channel] >= 500 /\ gCircles[i].color[channel] <= 1000

\* A dispatch over two circles of different colors has written both back.
C16_Witness ==
    /\ AllDone
    /\ Len(gCircles) = 2
    /\ gCircles[1].color # gCircles[2].color
    /\ gCircles[1].position # startCircles[1].position
    /\ gCircles[2].position # startCircles[2].position

\* ------------------------------------------------------------ more claims on the page

\* The size of the circle buffer, 0 while there is none
Capacity(bs, id) == IF id = 0 THEN 0 ELSE bs[id].size

\* This step is a call of restartSimulation.
SomeRestartStep == \E input \in RestartInputs : RestartStep(input)

\* C17: num_circles changes only in a restartSimulation, and the size of the
\* circle buffer only there and when init() creates it; a restartSimulation
\* that has changed the count or the buffer was a successful one, which has
\* destroyed the old buffer and created and filled a new one of that count.
C17_CountChangesOnlyByRestart ==
    /\ [][/\ (num_circles' # num_circles) => SomeRestartStep
          /\ (Capacity(buffers', circleBuffer') # Capacity(buffers, circleBuffer)) =>
                 (call'.op = "init" \/ SomeRestartStep)]_vars
    /\ []((/\ Restarted
            /\ \/ num_circles # call.before[1]
               \/ circleBuffer # call.before[2]) =>
               /\ call.reports = <<>>
               /\ circleBuffer # 0
               /\ circleBuffer # call.before[2]
               /\ call.before[2] # 0 => buffers[call.before[2]].destroyed
               /\ ~buffers[circleBuffer].destroyed
               /\ buffers[circleBuffer].size = BufferSize(num_circles)
               /\ Len(buffers[circleBuffer].data) = num_circles)

\* C18: in one dispatch the invocation with global id k writes only
\* circles[k], an invocation with k >= num_circles reads and writes nothing,
\* and no two invocations write the same element. (Indices are 1-based here.)
C18_WritesAreDisjoint ==
    invocations # <<>> =>
        /\ \A k \in DOMAIN invocations :
               /\ invocations[k].writes \subseteq {k}
               /\ k > Len(gCircles) =>
                      /\ invocations[k].writes = {}
                      /\ invocations[k].reads = {}
                      /\ invocations[k].pc \in {"main", "done"}
        /\ \A k, l \in DOMAIN invocations :
               k # l => invocations[k].writes \cap invocations[l].writes = {}

\* Both invocations of two circles have written, the one beyond has returned.
C18_Witness ==
    /\ AllDone
    /\ Len(gCircles) = 2
    /\ invocations[1].writes = {1}
    /\ invocations[2].writes = {2}
    /\ invocations[3].pc = "done"
    /\ invocations[3].writes = {}

\* C19: the gravity added to a particle's acceleration in one step is exactly
\* (0, GRAVITY * gravity direction), whatever the step's delta time: a single
\* particle with the mouse up, which gets no other term, stores that
\* acceleration.
C19_GravityIsDeltaFree ==
    [][(/\ gSteps' = gSteps + 1
        /\ Len(gCircles) = 1
        /\ gUniforms.is_mouse_down = 0) =>
           gCircles'[1].acceleration =
               V(0, GRAVITY(gShader) * GravityDirection(gShader, gUniforms) * AccQ)]_vars

\* C20: in the particles_custom shader the acceleration stored for every
\* particle after a step has a magnitude of at most MAX_ACCEL.
C20_AccelerationIsClamped ==
    [][(/\ gSteps' = gSteps + 1
        /\ gShader = "custom"
        /\ \A i \in 1..Len(gCircles) : Defined(gCircles[i])) =>
           \A i \in 1..Len(gCircles') :
               /\ ~gCircles'[i].acceleration.nan
               /\ Length(gCircles'[i].acceleration) <= MAX_ACCEL * AccQ]_vars

\* The velocity of invocation index right before "Dampen the velocity", every
\* read taken from buf.
Accelerated(sh, buf, u, ms, index) ==
    LET circle == PairLoop(sh, [buf[index] EXCEPT !.acceleration = Zero], buf, index, 1, ms)
        a      == ClampAccel(sh, VAdd(VAdd(circle.acceleration, MouseTerm(sh, circle, u)),
                                       GravityTerm(sh, u, ms)))
    IN  UpdateVelocity(circle.velocity, a, ms)

\* C28: the damping never increases a particle's speed: the factor applied
\* to the velocity lies in (0, 1], so the damped velocity is no longer than
\* the velocity before damping and points the same way, in every shader.
C28_DampingNeverSpeedsUp ==
    [][(/\ gSteps' = gSteps + 1
        /\ Len(gCircles) = 1
        /\ Defined(gCircles[1])) =>
           LET v == Accelerated(gShader, gCircles, gUniforms, gDeltaTime, 1)
               w == Dampen(gShader, v)
           IN  ~v.nan =>
                   /\ Length(gCircles'[1].velocity) = Length(w)
                   /\ Length(w) <= Length(v)
                   /\ Sign(w.x) \in {0, Sign(v.x)}
                   /\ Sign(w.y) \in {0, Sign(v.y)}]_vars

\* The position of invocation index right before "Check boundaries and bounce".
Moved(sh, buf, u, ms, index) ==
    Move(buf[index].position, Dampen(sh, Accelerated(sh, buf, u, ms, index)), ms)

\* C29: when the boundary check clamps a particle on an axis, the velocity
\* on that axis afterwards does not point out of the viewport: it is not
\* negative after a left or top clamp and not positive after a right or
\* bottom clamp, each axis on its own.
C29_ClampTurnsInward ==
    [][(/\ gSteps' = gSteps + 1
        /\ Len(gCircles) = 1
        /\ Defined(gCircles[1])) =>
           LET p == Moved(gShader, gCircles, gUniforms, gDeltaTime, 1)
               r == CIRCLE_RADIUS * PosQ
               v == gCircles'[1].velocity
           IN  ~p.nan =>
                   /\ p.x - r < 0 => v.x >= 0
                   /\ (p.x - r >= 0 /\ p.x + r > gUniforms.resolution.x) => v.x <= 0
                   /\ p.y - r < 0 => v.y >= 0
                   /\ (p.y - r >= 0 /\ p.y + r > gUniforms.resolution.y) => v.y <= 0]_vars

\* C30: with the mouse up the mouse position has no effect: the result of a
\* step of particles_custom is a result of the same step under every other
\* mouse position. With the mouse down, the mouse term pushes every particle
\* away from the cursor: a single particle without gravity is left with an
\* acceleration that points from the cursor to the particle.
C30_MouseActsOnlyWhenDown ==
    [][(gSteps' = gSteps + 1 /\ gShader = "custom") =>
           /\ gUniforms.is_mouse_down = 0 =>
                  \A m \in StepMouse :
                      gCircles' \in Dispatched(gShader, gCircles,
                                               [gUniforms EXCEPT !.mouse_position = m],
                                               gDeltaTime)
           /\ (/\ gUniforms.is_mouse_down # 0
               /\ gUniforms.gravity_direction = 0
               /\ Len(gCircles) = 1
               /\ Defined(gCircles[1])) =>
                  LET away == VSub(gCircles[1].position, gUniforms.mouse_position)
                      a    == gCircles'[1].acceleration
                  IN  /\ ~a.nan
                      /\ a # Zero
                      /\ Sign(a.x) \in {0, Sign(away.x)}
                      /\ Sign(a.y) \in {0, Sign(away.y)}]_vars

\* This step is recompileComputeFromEditor() on the editor text code.
RecompileStep(code) ==
    /\ call'.op = "recompileComputeFromEditor"
    /\ RecompileComputeFromEditor(code)

\* C25: recompileComputeFromEditor swaps in the new compute pipeline and bind
\* group only on success: with an empty source, a compilation error, or a
\* throwing creation (no device, no time buffer) computePipeline and
\* computeBindGroup keep their values and the simulation goes on as it was.
C25_SwapOnlyOnSuccess ==
    [][\A code \in ShaderSources :
         (RecompileStep(code) /\ (code \in {"", "errors"} \/ stage \in {"device", "failed"})) =>
             /\ computePipeline' = computePipeline
             /\ computeBindGroup' = computeBindGroup
             /\ bindGroup' = bindGroup
             /\ stage' = stage
             /\ gpuVars' = gpuVars]_vars

\* A source with a compilation error was confirmed in a running simulation
\* that an earlier recompile had given the editor's pipeline: the error is
\* up and the editor's pipeline and the bind group are still in place.
C25_Witness ==
    /\ call.op = "recompileComputeFromEditor"
    /\ stage = "running"
    /\ toast.message = "Shader Errors"
    /\ computePipeline = "editor"
    /\ computeBindGroup = circleBuffer

\* C24: whenever a compute or render pass is submitted (a frame runs between
\* two handlers of the running page), the bind groups reference the current
\* circle buffer, and that buffer is not destroyed.
C24_BindGroupsAreCurrent ==
    (stage = "running" /\ ~gen.active) =>
        /\ circleBuffer # 0
        /\ bindGroup = circleBuffer
        /\ computeBindGroup = circleBuffer
        /\ ~buffers[circleBuffer].destroyed

\* ------------------------------------------------------------ SpecInput

\* Where the pointer can be on the canvas, in pixels
MousePoints == {<<20, 20>>, <<30, 10>>}

\* event.buttons: none, the primary button
MouseButtons == {0, 1}

\* What updateUniformsBuffer leaves in the uniform buffer and in the toast,
\* called with the interaction state m, down, g, reversed: without a device
\* writeBuffer throws inside its try and the error is reported.
WrittenUniforms(m, down, g, reversed) ==
    IF UniformsBufferDefined
    THEN UniformData(variant, canvas, m, down, g, reversed)
    ELSE gUniforms

UniformsToast ==
    IF UniformsBufferDefined THEN toast
    ELSE ShowErrorToast(toast, "Error updating uniform buffer", FALSE)

\* updateMousePosition(event) as the listener of mousemove, mousedown and
\* mouseup: the canvas fills the window from its corner, so that the
\* position is <<clientX, clientY>>.
UpdateMousePosition(x, y, buttons) ==
    /\ variant = "particles_custom"
    /\ ~gen.active
    /\ mousePosition' = <<x, y>>
    /\ isMouseDown' = (buttons > 0)
    /\ gUniforms' = WrittenUniforms(mousePosition', isMouseDown', gravityDirection,
                                    isGravityReversed)
    /\ toast' = UniformsToast
    /\ call' = [NoCall EXCEPT !.op = "updateMousePosition"]
    /\ UNCHANGED <<gShader, gCircles, gDeltaTime, gSteps, dispatchVars, computePipeline,
                   gravityDirection, isGravityReversed, gravityStatus, loopVars, variant,
                   canvas, stage, storeVars, gen, numWorkgroups>>

\* The listener of mouseleave, updateMousePosition(event, false): it assigns
\* isMouseDown and returns.
MouseLeave ==
    /\ variant = "particles_custom"
    /\ ~gen.active
    /\ isMouseDown' = FALSE
    /\ call' = [NoCall EXCEPT !.op = "mouseleave"]
    /\ UNCHANGED <<gpuVars, dispatchVars, computePipeline, mousePosition, gravityDirection,
                   isGravityReversed, gravityStatus, loopVars, variant, canvas, stage,
                   storeVars, gen, toast, numWorkgroups>>

\* updateGravity: the gravity direction after g.
NextGravity(g) == IF g = 0 THEN -1 ELSE IF g = -1 THEN 1 ELSE 0

\* updateGravity: the text of #gravity-status for direction g.
GravityLabel(g) ==
    IF g = 0 THEN "Gravity: None" ELSE IF g = 1 THEN "Gravity: Upward" ELSE "Gravity: Downward"

\* updateGravity() of particles_custom
UpdateGravity ==
    /\ variant = "particles_custom"
    /\ ~gen.active
    /\ gravityDirection' = NextGravity(gravityDirection)
    /\ gUniforms' = WrittenUniforms(mousePosition, isMouseDown, gravityDirection',
                                    isGravityReversed)
    /\ toast' = UniformsToast
    /\ gravityStatus' = GravityLabel(gravityDirection')
    /\ call' = [NoCall EXCEPT !.op = "updateGravity"]
    /\ UNCHANGED <<gShader, gCircles, gDeltaTime, gSteps, dispatchVars, computePipeline,
                   mousePosition, isMouseDown, isGravityReversed, loopVars, variant,
                   canvas, stage, storeVars, gen, numWorkgroups>>

\* The keydown listener of particles for Space: the flag, the uniform buffer,
\* updateGravityDisplay.
ReverseGravity ==
    /\ variant = "particles"
    /\ ~gen.active
    /\ isGravityReversed' = ~isGravityReversed
    /\ gUniforms' = WrittenUniforms(mousePosition, isMouseDown, gravityDirection,
                                    isGravityReversed')
    /\ toast' = UniformsToast
    /\ gravityStatus' = IF isGravityReversed' THEN "Gravity: Upward" ELSE "Gravity: Downward"
    /\ call' = [NoCall EXCEPT !.op = "keydown"]
    /\ UNCHANGED <<gShader, gCircles, gDeltaTime, gSteps, dispatchVars, computePipeline,
                   mousePosition, isMouseDown, gravityDirection, loopVars, variant,
                   canvas, stage, storeVars, gen, numWorkgroups>>

\* The keydown listener of particles_custom for Space: nothing while the
\* focus is in an editable element, updateGravity() otherwise.
KeydownSpace(isEditable) ==
    IF isEditable
    THEN /\ variant = "particles_custom"
         /\ ~gen.active
         /\ call' = [NoCall EXCEPT !.op = "keydown"]
         /\ UNCHANGED <<gpuVars, dispatchVars, computePipeline, inputVars, loopVars, variant,
                        canvas, stage, storeVars, gen, toast, numWorkgroups>>
    ELSE UpdateGravity

\* The frame intervals of this specification: the first call, a frame at 60 Hz
InputIntervals == {0, 16}

\* The page loads in a window of 40 x 40 px and is then resized.
InitInput ==
    /\ variant \in Variants
    /\ gShader = ShaderOf(variant)
    /\ gCircles = <<>>
    /\ gUniforms = <<>>
    /\ gDeltaTime = 0
    /\ gSteps = 0
    /\ invocations = <<>>
    /\ startCircles = <<>>
    /\ canvas = <<40, 40>>
    /\ stage = "device"
    /\ num_circles = InitNumCircles
    /\ circles = <<>>
    /\ buffers = <<>>
    /\ circleBuffer = 0
    /\ bindGroup = 0
    /\ computeBindGroup = 0
    /\ gen = NoGen
    /\ toast = NoToast
    /\ numWorkgroups = 0
    /\ call = NoCall
    /\ computePipeline = ""
    /\ NoInput
    /\ NoLoop

NextInput ==
    \/ InitDevice
    \/ InitRenderPipeline
    \/ InitComputePipeline
    \/ \E size \in WindowSizes : ResizeCanvas(size)
    \/ \E cell \in AllCells : GeneratePlace(cell[1], cell[2])
    \/ \E cell \in AllCells : GenerateRetry(cell[1], cell[2])
    \/ \E point \in MousePoints, buttons \in MouseButtons :
           UpdateMousePosition(point[1], point[2], buttons)
    \/ MouseLeave
    \/ \E isEditable \in BOOLEAN : KeydownSpace(isEditable)
    \/ ReverseGravity
    \/ \E deltaTime \in InputIntervals : Update(deltaTime)

SpecInput == InitInput /\ [][NextInput]_vars

\* The resolution uniform of a canvas of c pixels
ResolutionOf(c) == V(c[1] * PosQ, c[2] * PosQ)

\* This step is a frame whose compute step runs.
ComputeStep == call'.op = "update" /\ gSteps' = gSteps + 1

\* C21: after a window resize the resolution read by the next compute step
\* is the new canvas width and height; no step runs with a resolution
\* uniform that predates the resize.
C21_StepReadsNewResolution ==
    [][ComputeStep => gUniforms.resolution = ResolutionOf(canvas)]_vars

\* A step has run on a canvas resized from 40 x 40 to 40 x 10 px, with the
\* resolution of the resized canvas.
C21_Witness ==
    /\ call.op = "update"
    /\ gSteps = 1
    /\ canvas = <<40, 10>>
    /\ gUniforms.resolution = ResolutionOf(<<40, 10>>)

\* C26: whenever a compute step runs, is_mouse_down and mouse_position of
\* the uniform buffer equal the host's isMouseDown and mousePosition.
C26_MouseStateIsMirrored ==
    [][(ComputeStep /\ variant = "particles_custom") =>
         /\ (gUniforms.is_mouse_down # 0) = isMouseDown
         /\ gUniforms.mouse_position = V(mousePosition[1] * PosQ, mousePosition[2] * PosQ)]_vars

\* A step runs with the button released on the host and down in the buffer.
C26_StaleMouseDown ==
    ~(/\ call.op = "update"
      /\ gSteps > 0
      /\ variant = "particles_custom"
      /\ ~isMouseDown
      /\ gUniforms.is_mouse_down # 0)

\* This step is a call of updateGravity().
GravityStep == call'.op = "updateGravity" /\ UpdateGravity

\* C27: gravityDirection is always -1, 0 or 1 and starts at 0; each
\* updateGravity call advances it in the cycle 0 -> -1 -> 1 -> 0, writes the
\* new value to the uniform buffer and sets the status text to the label of
\* the new value.
C27_GravityCycles ==
    /\ gravityDirection = 0
    /\ [](gravityDirection \in {-1, 0, 1})
    /\ [][GravityStep =>
            /\ gravityDirection' = (IF gravityDirection = 0 THEN -1
                                    ELSE IF gravityDirection = -1 THEN 1 ELSE 0)
            /\ gravityStatus' = (IF gravityDirection' = 0 THEN "Gravity: None"
                                 ELSE IF gravityDirection' = -1 THEN "Gravity: Downward"
                                 ELSE "Gravity: Upward")
            /\ UniformsBufferDefined
            /\ gUniforms'.gravity_direction = gravityDirection']_vars

\* What holds of updateGravity: the cycle and the label on every call; the
\* write if the uniform buffer exists; without it the error toast, and the
\* value written by createUniformsBuffer once init() has its device.
C27_GravityCyclesGivenBuffer ==
    /\ gravityDirection = 0
    /\ [](gravityDirection \in {-1, 0, 1})
    /\ [][GravityStep =>
            /\ gravityDirection' = (IF gravityDirection = 0 THEN -1
                                    ELSE IF gravityDirection = -1 THEN 1 ELSE 0)
            /\ gravityStatus' = (IF gravityDirection' = 0 THEN "Gravity: None"
                                 ELSE IF gravityDirection' = -1 THEN "Gravity: Downward"
                                 ELSE "Gravity: Upward")
            /\ IF UniformsBufferDefined
               THEN gUniforms'.gravity_direction = gravityDirection'
               ELSE /\ gUniforms' = gUniforms
                    /\ toast'.message = "Error updating uniform buffer"]_vars
    /\ [][(~UniformsBufferDefined /\ UniformsBufferDefined' /\ variant = "particles_custom") =>
            gUniforms'.gravity_direction = gravityDirection']_vars

\* ------------------------------------------------------------ SpecLoop

\* The pages with a frame loop: the two particle pages and triangle.js
Pages == Variants \cup {"triangle"}

\* The calls of update the model follows
MaxFrames == 4

\* The frame intervals of the loop: below the threshold of a step, a frame
\* at 60 Hz
LoopIntervals == {0, 16}

\* update that submits the render pass first.
PassesRenderFirst(stepRuns, compute, render) ==
    IF stepRuns THEN <<render, compute>> ELSE <<render>>

\* update: runComputeShader under its condition, then runRenderShader; each
\* ends in device.queue.submit.
Passes(stepRuns, compute, render) ==
    IF stepRuns THEN <<compute, render>> ELSE <<render>>

\* update whose catch only reports.
RetryTimersNone(throws) == 0

\* update: the timers its catch sets, setTimeout(..., 100).
RetryTimers(throws) == IF throws THEN 1 ELSE 0

\* update: the callbacks its try requests, requestAnimationFrame(update) as
\* its last statement.
FrameRequests(throws) == IF throws THEN 0 ELSE 1

\* One call of update, consumed of the pending callbacks being this call. In
\* the particle pages runComputeShader and runRenderShader catch what they
\* throw and nothing else in the try can throw; in triangle.js the render
\* pass is built in update's own try and an exception leaves it before the
\* submit.
UpdateCall(deltaTime, throws, consumed) ==
    /\ stage = "running"
    /\ frame < MaxFrames
    /\ throws => variant = "triangle"
    /\ frame' = frame + 1
    /\ LET stepRuns == /\ variant # "triangle"
                       /\ computePipeline # ""
                       /\ StepRuns(variant, deltaTime)
           steps    == IF stepRuns THEN submitted + 1 ELSE submitted
           compute  == [pass |-> "compute", frame |-> frame', steps |-> steps,
                        deltaTime |-> StepDeltaTime(variant, deltaTime)]
           render   == [pass |-> "render", frame |-> frame', steps |-> steps,
                        deltaTime |-> 0]
       IN  /\ submitted' = steps
           /\ numWorkgroups' = IF stepRuns THEN Ceil(num_circles, WorkgroupSize(variant))
                                ELSE numWorkgroups
           /\ queue' = IF throws THEN queue ELSE queue \o Passes(stepRuns, compute, render)
    /\ timers' = timers + RetryTimers(throws)
    /\ requests' = (requests - consumed) + FrameRequests(throws)
    /\ toast' = IF throws THEN ShowErrorToast(toast, "Render error", FALSE) ELSE toast
    /\ call' = [NoCall EXCEPT !.op = "update", !.input = <<deltaTime>>,
                              !.reports = IF throws THEN <<"Render error">> ELSE <<>>]
    /\ UNCHANGED <<gpuVars, dispatchVars, variant, canvas, stage, storeVars, gen,
                   computePipeline, inputVars, running>>

\* init(): `update()`, the first call, with currentTime = 0 = lastTime.
StartLoop(throws) ==
    /\ frame = 0
    /\ UpdateCall(0, throws, 0)

\* The browser calls a requested frame callback.
AnimationFrame(deltaTime, throws) ==
    /\ requests > 0
    /\ UpdateCall(deltaTime, throws, 1)

\* The 100 ms timer of update's catch: requestAnimationFrame(update).
TimerFires ==
    /\ timers > 0
    /\ timers' = timers - 1
    /\ requests' = requests + 1
    /\ call' = [NoCall EXCEPT !.op = "setTimeout"]
    /\ UNCHANGED <<gpuVars, dispatchVars, variant, canvas, stage, storeVars, gen, toast,
                   numWorkgroups, computePipeline, inputVars, frame, queue, running,
                   submitted>>

\* The GPU takes the next pass of its queue; submitted command buffers
\* execute in the order of their submission.
GpuBegin ==
    /\ running = NoPass
    /\ queue # <<>>
    /\ running' = Head(queue)
    /\ queue' = Tail(queue)
    /\ UNCHANGED <<gpuVars, dispatchVars, variant, canvas, stage, storeVars, gen, toast,
                   numWorkgroups, call, computePipeline, inputVars, requests, timers,
                   frame, submitted>>

\* The GPU finishes its pass: a compute pass has run one step on the circle
\* buffer with the delta time written before it, a render pass has read it.
GpuEnd ==
    /\ running # NoPass
    /\ running' = NoPass
    /\ IF running.pass = "compute"
       THEN /\ gDeltaTime' = running.deltaTime
            /\ gCircles' \in Dispatched(gShader, gCircles, gUniforms, gDeltaTime')
            /\ gSteps' = gSteps + 1
       ELSE UNCHANGED <<gDeltaTime, gCircles, gSteps>>
    /\ UNCHANGED <<gShader, gUniforms, dispatchVars, variant, canvas, stage, storeVars, gen,
                   toast, numWorkgroups, call, computePipeline, inputVars, requests,
                   timers, frame, queue, submitted>>

\* The page when init() is about to call update(): its buffers, pipelines and
\* bind groups are in place.
InitLoop ==
    /\ variant \in Pages
    /\ gShader = (IF variant = "triangle" THEN "" ELSE ShaderOf(variant))
    /\ gCircles = <<>>
    /\ canvas = <<40, 40>>
    /\ NoInput
    /\ gUniforms = UniformData(variant, canvas, mousePosition, isMouseDown,
                               gravityDirection, isGravityReversed)
    /\ gDeltaTime = 0
    /\ gSteps = 0
    /\ invocations = <<>>
    /\ startCircles = <<>>
    /\ stage = "running"
    /\ num_circles = InitNumCircles
    /\ circles = <<>>
    /\ buffers = <<[size |-> BufferSize(InitNumCircles), destroyed |-> FALSE, data |-> <<>>]>>
    /\ circleBuffer = 1
    /\ bindGroup = 1
    /\ computeBindGroup = 1
    /\ gen = NoGen
    /\ toast = NoToast
    /\ numWorkgroups = 0
    /\ call = NoCall
    /\ computePipeline = (IF variant = "triangle" THEN "" ELSE "movement.wgsl")
    /\ NoLoop

NextLoop ==
    \/ \E throws \in BOOLEAN : StartLoop(throws)
    \/ \E deltaTime \in LoopIntervals, throws \in BOOLEAN : AnimationFrame(deltaTime, throws)
    \/ TimerFires
    \/ GpuBegin
    \/ GpuEnd

SpecLoop == InitLoop /\ [][NextLoop]_vars

\* The browser calls every requested frame callback and fires every timer.
SpecLoopLive ==
    /\ SpecLoop
    /\ WF_vars(\E deltaTime \in LoopIntervals, throws \in BOOLEAN :
                   AnimationFrame(deltaTime, throws))
    /\ WF_vars(TimerFires)

\* C22: in every frame the compute pass is submitted before the render pass,
\* to the same queue: while a render pass runs, the GPU has finished exactly
\* the steps submitted up to that render's frame, and no compute pass of that
\* frame or an earlier one is still waiting.
C22_RenderBetweenSteps ==
    /\ running.pass = "render" => gSteps = running.steps
    /\ running.pass = "compute" => gSteps = running.steps - 1
    /\ \A i \in 1..Len(queue) : \A j \in 1..Len(queue) :
          (queue[i].pass = "render" /\ queue[j].pass = "compute"
               /\ queue[j].frame <= queue[i].frame) => j < i

\* The render pass of a frame runs after that frame's step, with the step of
\* the next frame waiting in the queue behind it.
C22_Witness ==
    /\ running.pass = "render"
    /\ running.steps = 1
    /\ gSteps = 1
    /\ queue # <<>>
    /\ Head(queue).pass = "compute"

\* C23: every call of update schedules exactly one next call, through
\* requestAnimationFrame if it succeeds and through the 100 ms timer and then
\* requestAnimationFrame if it throws: once started the loop has exactly one
\* frame callback or timer pending, never two callbacks, and every call of
\* update is followed by another.
C23_LoopNeverStops ==
    /\ [](frame > 0 => requests + timers = 1)
    /\ [][frame' = frame + 1 =>
            IF call'.reports = <<>> THEN requests' = 1 /\ timers' = 0
            ELSE requests' = 0 /\ timers' = 1]_vars
    /\ [][timers' < timers => requests' = 1 /\ timers' = 0]_vars
    /\ \A n \in 1..(MaxFrames - 1) : (frame = n) ~> (frame = n + 1)

\* A call of update has thrown, its timer has fired, and the next call has
\* been made from the callback the timer requested.
C23_Witness ==
    /\ frame = 3
    /\ call.op = "update"
    /\ toast.message = "Render error"
    /\ call.reports = <<>>
    /\ requests = 1
    /\ timers = 0

====
